---------------------------- MODULE Spec2Model ----------------------------
(***************************************************************************)
(* One run of the monitoring dashboard script (streamlit_app.py): the      *)
(* sheet is loaded and cleaned, filtered by date range and URL keyword,    *)
(* bucketed into calendar periods (overall or per host/connector), cut to  *)
(* the top N groups and summarised by period-over-period growth metrics.   *)
(*                                                                         *)
(* Strings are tuples of one-character strings.  Dates are day numbers of  *)
(* the year 1950 (0 = 1950-01-01, a Sunday), a year in which Asia/Tokyo    *)
(* observed daylight saving time, so that tz_localize meets ambiguous and  *)
(* nonexistent wall times.  A timestamp is [day, hour]; NaT is the missing *)
(* timestamp.                                                              *)
(***************************************************************************)
EXTENDS Integers, Sequences, FiniteSets, TLC

VARIABLES
    pc,        \* position of the script run
    uploaded,  \* the sheet behind st.file_uploader / the fallback file
    df,        \* the Event table (canonical, then filtered in place)
    freq,      \* pandas frequency chosen by the granularity radio
    dim,       \* dim_label chosen by the grouping radio
    grouped,   \* the Aggregated Series (cut to the top N groups by the chart step)
    topn,      \* value of the Top-N slider (0 while unread)
    rendered,  \* what the growth section has put on the page, in order
    exc,       \* the exception that ended the run, or "none"
    g          \* argument of a direct call of show_metrics

vars == <<pc, uploaded, df, freq, dim, grouped, topn, rendered, exc, g>>

-----------------------------------------------------------------------------
(* Bounds of the model *)

\* rows of an uploaded sheet in the full pipeline
MaxRows == 3
\* rows of a filtered Event table handed to the grouped aggregation / Top-N
MaxGroupRows == 5
\* groups of a grouped series handed to the growth section (Top N leaves at
\* most TopNMax)
MaxGrowthGroups == 20
\* length of the repeating pattern of group shapes in those series
PatternLen == 3
\* periods of a series handed directly to show_metrics
MaxPeriods == 3
\* largest count in such a series
MaxCount == 2

-----------------------------------------------------------------------------
(* Strings *)

\* ord() of the characters the model uses
Code(c) ==
    CASE c = " " -> 32 [] c = "-" -> 45 [] c = "K" -> 75 [] c = "T" -> 84
      [] c = "a" -> 97 [] c = "b" -> 98 [] c = "c" -> 99 [] c = "d" -> 100
      [] c = "e" -> 101 [] c = "f" -> 102 [] c = "g" -> 103 [] c = "h" -> 104
      [] c = "i" -> 105 [] c = "j" -> 106 [] c = "k" -> 107 [] c = "l" -> 108
      [] c = "m" -> 109 [] c = "n" -> 110 [] c = "o" -> 111 [] c = "p" -> 112
      [] c = "q" -> 113 [] c = "r" -> 114 [] c = "s" -> 115 [] c = "t" -> 116
      [] c = "x" -> 120

\* str.lower() on one character
LowerChar(c) == CASE c = "K" -> "k" [] c = "T" -> "t" [] OTHER -> c

LowerStr(s) == [i \in 1..Len(s) |-> LowerChar(s[i])]

IsSpace(c) == c = " "

RECURSIVE LStrip(_)
LStrip(s) == IF s # <<>> /\ IsSpace(Head(s)) THEN LStrip(Tail(s)) ELSE s

RECURSIVE RStrip(_)
RStrip(s) ==
    IF s # <<>> /\ IsSpace(s[Len(s)]) THEN RStrip(SubSeq(s, 1, Len(s) - 1)) ELSE s

\* Series.str.strip()
Strip(s) == RStrip(LStrip(s))

\* Series.str.contains(kw, case=False) for a keyword without regex metacharacters
StrContains(s, kw) ==
    \E i \in 0..(Len(s) - Len(kw)) :
        SubSeq(LowerStr(s), i + 1, i + Len(kw)) = LowerStr(kw)

\* Python's < on str
RECURSIVE StrLess(_, _)
StrLess(a, b) ==
    IF b = <<>> THEN FALSE
    ELSE IF a = <<>> THEN TRUE
    ELSE IF Code(Head(a)) # Code(Head(b)) THEN Code(Head(a)) < Code(Head(b))
    ELSE StrLess(Tail(a), Tail(b))

\* the keys of a groupby in the order groupby(sort=True) yields them
RECURSIVE SortedNames(_)
SortedNames(S) ==
    IF S = {} THEN <<>>
    ELSE LET m == CHOOSE x \in S : \A y \in S \ {x} : StrLess(x, y)
         IN  <<m>> \o SortedNames(S \ {m})

RECURSIVE SortedInts(_)
SortedInts(S) ==
    IF S = {} THEN <<>>
    ELSE LET m == CHOOSE x \in S : \A y \in S : x <= y
         IN  <<m>> \o SortedInts(S \ {m})

RECURSIVE Flatten(_)
Flatten(ss) == IF ss = <<>> THEN <<>> ELSE Head(ss) \o Flatten(Tail(ss))

Range(s) == {s[i] : i \in 1..Len(s)}

Min2(a, b) == IF a <= b THEN a ELSE b

-----------------------------------------------------------------------------
(* Calendar and time zone *)

NaT == [day |-> 0 - 1, hour |-> 0]

\* day number of the last day of each month of 1950
MonthEnds == <<30, 58, 89, 119, 150, 180, 211, 242, 272, 303, 333, 364>>

\* datetime.weekday(): Monday is 0
Weekday(d) == (d + 6) % 7

\* Asia/Tokyo, 1950: clocks go from 00:00 to 01:00 on Sunday 7 May (the hour
\* 00:00-00:59 does not exist) and from 01:00 back to 00:00 on Sunday
\* 10 September (the hour 00:00-00:59 happens twice)
GapDay == 126
FoldDay == 252

\* pd.to_datetime(errors='coerce') on one cell
to_datetime(cell) ==
    IF cell.parsable THEN [day |-> cell.day, hour |-> cell.hour] ELSE NaT

\* Series.dt.tz_localize('Asia/Tokyo', ambiguous='NaT', nonexistent='shift_forward')
\* on one value
tz_localize(ts) ==
    IF ts = NaT THEN NaT
    ELSE IF ts.day = FoldDay /\ ts.hour = 0 THEN NaT
    ELSE IF ts.day = GapDay /\ ts.hour = 0 THEN [day |-> ts.day, hour |-> 1]
    ELSE ts

-----------------------------------------------------------------------------
(* Data loader *)

\* df.dropna(subset=['timestamp'])
dropna(rows) == SelectSeq(rows, LAMBDA r : r.timestamp # NaT)

load_data(sheet) ==
    LET parsed == [i \in 1..Len(sheet) |->
                      [timestamp |-> to_datetime(sheet[i].timestamp),
                       host |-> sheet[i].host,
                       url |-> sheet[i].url,
                       connector |-> sheet[i].connector]]
        kept == dropna(parsed)
    IN  [i \in 1..Len(kept) |->
            [timestamp |-> tz_localize(kept[i].timestamp),
             host |-> Strip(kept[i].host),
             url |-> Strip(kept[i].url),
             connector |-> Strip(kept[i].connector)]]

-----------------------------------------------------------------------------
(* Sidebar controls and filter *)

Freqs == {"D", "W-MON", "M"}
Overall == "overall"
Dims == {Overall, "host", "connector"}

\* the calendar dates of the non-missing timestamps (min()/max() skip NaT)
Dates(table) ==
    {table[i].timestamp.day : i \in {j \in 1..Len(table) : table[j].timestamp # NaT}}

MinDate(table) == CHOOSE d \in Dates(table) : \A e \in Dates(table) : d <= e
MaxDate(table) == CHOOSE d \in Dates(table) : \A e \in Dates(table) : d >= e

\* the (start, end) pairs the date_input is tried with
DateRanges(table) ==
    {r \in {MinDate(table), MaxDate(table)} \X {MinDate(table), MaxDate(table)} :
        r[1] <= r[2]}

\* the keywords the text_input is tried with; the empty one switches the filter off
Keywords == {<<>>, <<"t", "k">>}

\* a comparison with a missing date is False
DateMask(table, start, end) ==
    SelectSeq(table, LAMBDA r :
        r.timestamp # NaT /\ r.timestamp.day >= start /\ r.timestamp.day <= end)

KeywordFilter(table, kw) ==
    IF kw # <<>> THEN SelectSeq(table, LAMBDA r : StrContains(r.url, kw)) ELSE table

-----------------------------------------------------------------------------
(* Aggregation *)

\* Faulty variant: bins labelled on the left: by the Monday that starts the week and
\* by the first day of the month
BinLabelLeft(d, f) ==
    IF f = "D" THEN d
    ELSE IF f = "W-MON" THEN d - Weekday(d)
    ELSE IF d <= MonthEnds[1] THEN 0
    ELSE 1 + MonthEnds[CHOOSE m \in 1..Len(MonthEnds) :
                           /\ d > MonthEnds[m]
                           /\ \A k \in (m + 1)..Len(MonthEnds) : d <= MonthEnds[k]]

\* label of the pd.Grouper bin holding calendar day d: 'D' bins are labelled
\* by the day; 'W-MON' and 'M' bins are closed and labelled on the right, by
\* the Monday that ends the week and by the last day of the month
BinLabel(d, f) ==
    IF f = "D" THEN d
    ELSE IF f = "W-MON" THEN d + ((7 - Weekday(d)) % 7)
    ELSE MonthEnds[CHOOSE m \in 1..Len(MonthEnds) :
                       /\ d <= MonthEnds[m]
                       /\ \A k \in 1..(m - 1) : d > MonthEnds[k]]

\* date_range(first, last, freq=f) over bin labels: every label from the bin
\* holding the first event to the bin holding the last
BinLabels(first, last, f) ==
    IF f = "D" THEN [k \in 1..(last - first + 1) |-> first + (k - 1)]
    ELSE IF f = "W-MON"
         THEN [k \in 1..((last - first) \div 7 + 1) |-> first + 7 * (k - 1)]
    ELSE SelectSeq(MonthEnds, LAMBDA e : e >= first /\ e <= last)

Midnight(d) == [day |-> d, hour |-> 0]

\* Faulty variant: the bin holding the last event is left out of the range
AggregateOverallOpenEnd(table, f) ==
    IF table = <<>> THEN <<>>
    ELSE LET labels == BinLabels(BinLabel(MinDate(table), f),
                                 BinLabel(MaxDate(table), f) - 1, f)
         IN  [k \in 1..Len(labels) |->
                [group |-> <<>>,
                 timestamp |-> Midnight(labels[k]),
                 count |-> Cardinality({i \in 1..Len(table) :
                              BinLabel(table[i].timestamp.day, f) = labels[k]})]]

\* Faulty variant: only observed bins, as in the grouped aggregation
AggregateOverallSparse(table, f) ==
    LET labels == SortedInts({BinLabel(table[i].timestamp.day, f) :
                                 i \in 1..Len(table)})
    IN  [k \in 1..Len(labels) |->
           [group |-> <<>>,
            timestamp |-> Midnight(labels[k]),
            count |-> Cardinality({i \in 1..Len(table) :
                         BinLabel(table[i].timestamp.day, f) = labels[k]})]]

\* df.groupby(pd.Grouper(key='timestamp', freq=f)).size(): one row per bin of
\* the range, empty bins included
AggregateOverall(table, f) ==
    IF table = <<>> THEN <<>>
    ELSE LET labels == BinLabels(BinLabel(MinDate(table), f),
                                 BinLabel(MaxDate(table), f), f)
         IN  [k \in 1..Len(labels) |->
                [group |-> <<>>,
                 timestamp |-> Midnight(labels[k]),
                 count |-> Cardinality({i \in 1..Len(table) :
                              BinLabel(table[i].timestamp.day, f) = labels[k]})]]

\* df.groupby([d, pd.Grouper(key='timestamp', freq=f)]).size(): one row per
\* observed (group, bin) pair, sorted by group then bin
AggregateGrouped(table, d, f) ==
    LET names == SortedNames({table[i][d] : i \in 1..Len(table)})
        rowsOf(n) ==
            LET mine == {i \in 1..Len(table) : table[i][d] = n}
                labels == SortedInts({BinLabel(table[i].timestamp.day, f) : i \in mine})
            IN  [k \in 1..Len(labels) |->
                   [group |-> n,
                    timestamp |-> Midnight(labels[k]),
                    count |-> Cardinality({i \in mine :
                                 BinLabel(table[i].timestamp.day, f) = labels[k]})]]
    IN  Flatten([j \in 1..Len(names) |-> rowsOf(names[j])])

-----------------------------------------------------------------------------
(* Top N selection *)

TopNMin == 3
TopNDefault == 10
TopNMax == 20

\* the slider values the run is tried with
TopNChoices == {TopNMin, TopNMin + 1, TopNDefault, TopNMax}

GroupNames(series) == {series[i].group : i \in 1..Len(series)}

RowsOfGroup(series, n) == SelectSeq(series, LAMBDA r : r.group = n)

RECURSIVE SumCounts(_)
SumCounts(series) ==
    IF series = <<>> THEN 0 ELSE Head(series).count + SumCounts(Tail(series))

\* grouped.groupby(dim_label)['count'].sum()
GroupTotal(series, n) == SumCounts(RowsOfGroup(series, n))

\* Faulty variant: head(n - 1)
latest_totals_short(series, n) ==
    LET names == GroupNames(series)
    IN  {K \in SUBSET names :
            /\ Cardinality(K) = Min2(n - 1, Cardinality(names))
            /\ \A k \in K : \A o \in names \ K :
                   GroupTotal(series, k) >= GroupTotal(series, o)}

\* Faulty variant: sort_values() with the default ascending=True
latest_totals_ascending(series, n) ==
    LET names == GroupNames(series)
    IN  {K \in SUBSET names :
            /\ Cardinality(K) = Min2(n, Cardinality(names))
            /\ \A k \in K : \A o \in names \ K :
                   GroupTotal(series, k) <= GroupTotal(series, o)}

\* The index lists .sort_values(ascending=False).head(n) can return, as sets:
\* the totals are sorted with the default kind 'quicksort', which is not
\* stable, so groups of equal total come in an order the build decides.
latest_totals(series, n) ==
    LET names == GroupNames(series)
    IN  {K \in SUBSET names :
            /\ Cardinality(K) = Min2(n, Cardinality(names))
            /\ \A k \in K : \A o \in names \ K :
                   GroupTotal(series, k) >= GroupTotal(series, o)}

\* grouped[grouped[dim_label].isin(latest_totals)]
isin(series, K) == SelectSeq(series, LAMBDA r : r.group \in K)

-----------------------------------------------------------------------------
(* Growth *)

TsLess(a, b) == a.day < b.day \/ (a.day = b.day /\ a.hour < b.hour)

RECURSIVE InsertByTimestamp(_, _)
InsertByTimestamp(r, s) ==
    IF s = <<>> THEN <<r>>
    ELSE IF TsLess(r.timestamp, Head(s).timestamp) THEN <<r>> \o s
    ELSE <<Head(s)>> \o InsertByTimestamp(r, Tail(s))

\* Faulty variant: the rows are taken in the order given
rows_as_given(series) == series

\* DataFrame.sort_values('timestamp')
RECURSIVE sort_values(_)
sort_values(series) ==
    IF series = <<>> THEN <<>>
    ELSE InsertByTimestamp(series[Len(series)],
                           sort_values(SubSeq(series, 1, Len(series) - 1)))

NaN == [cls |-> "nan", num |-> 0, den |-> 0]
Inf == [cls |-> "inf", num |-> 0, den |-> 0]
Fraction(n, d) == [cls |-> "finite", num |-> n, den |-> d]

\* last element of Series.pct_change(): last / prev - 1 in floating point,
\* for counts that are never negative
pct_change(prev, last) ==
    IF prev = 0 THEN (IF last = 0 THEN NaN ELSE Inf)
    ELSE Fraction(last - prev, prev)

\* pd.notna
notna(p) == p.cls # "nan"

\* what one call of show_metrics puts on the page; label_name <<>> stands for
\* None and for the empty string, which the code treats alike
show_metrics(series, label_name) ==
    LET s == sort_values(series)
    IN  IF Len(s) >= 2
        THEN LET last == s[Len(s)]
                 prev == s[Len(s) - 1]
                 delta == last.count - prev.count
                 pct == pct_change(prev.count, last.count)
             IN  [kind |-> "metric",
                  name |-> label_name,
                  prev_date |-> prev.timestamp.day,
                  last_date |-> last.timestamp.day,
                  value |-> last.count,
                  delta |-> IF notna(pct)
                            THEN [text |-> "delta_pct", delta |-> delta, pct |-> pct]
                            ELSE [text |-> "dash"]]
        ELSE [kind |-> "info"]

\* the sort key of by_groups: pct, or -inf when pct is NaN
KeyGreater(a, b) ==
    /\ notna(a.pct)
    /\ \/ ~notna(b.pct)
       \/ a.pct.num * b.pct.den > b.pct.num * a.pct.den

RECURSIVE InsertDescending(_, _)
InsertDescending(x, s) ==
    IF s = <<>> THEN <<x>>
    ELSE IF KeyGreater(x, Head(s)) THEN <<x>> \o s
    ELSE <<Head(s)>> \o InsertDescending(x, Tail(s))

\* Faulty variant: sorted(by_groups, key=...) without reverse=True
RECURSIVE sorted_forward(_)
sorted_forward(s) ==
    IF s = <<>> THEN <<>>
    ELSE LET rest == sorted_forward(SubSeq(s, 1, Len(s) - 1))
             x == s[Len(s)]
             before == SelectSeq(rest, LAMBDA y : ~KeyGreater(y, x))
             after == SelectSeq(rest, LAMBDA y : KeyGreater(y, x))
         IN  before \o <<x>> \o after

\* sorted(by_groups, key=..., reverse=True): stable
RECURSIVE sorted_reverse(_)
sorted_reverse(s) ==
    IF s = <<>> THEN <<>>
    ELSE InsertDescending(s[Len(s)], sorted_reverse(SubSeq(s, 1, Len(s) - 1)))

MaxMetrics == 12

\* the loop over grouped.groupby(dim_label): groups with at least 2 periods
by_groups(series) ==
    LET names == SortedNames(GroupNames(series))
        entry(n) ==
            LET gs == sort_values(RowsOfGroup(series, n))
                last == gs[Len(gs)].count
                prev == gs[Len(gs) - 1].count
            IN  [name |-> n, g |-> gs,
                 pct |-> IF prev # 0 THEN Fraction(last - prev, prev) ELSE NaN]
        kept == SelectSeq(names, LAMBDA n : Len(RowsOfGroup(series, n)) >= 2)
    IN  [j \in 1..Len(kept) |-> entry(kept[j])]

\* the growth section in grouped mode
GrowthByGroup(series) ==
    LET ranked == sorted_reverse(by_groups(series))
        shown == SubSeq(ranked, 1, Min2(MaxMetrics, Len(ranked)))
    IN  [i \in 1..Len(shown) |-> show_metrics(shown[i].g, shown[i].name)]

-----------------------------------------------------------------------------
(* Inputs *)

SeqsUpTo(S, n) == UNION {[1..k -> S] : k \in 0..n}

Cell(d, h) == [parsable |-> TRUE, day |-> d, hour |-> h]
BadCell == [parsable |-> FALSE, day |-> 0, hour |-> 0]

RawRow(c, h, u, k) == [timestamp |-> c, host |-> h, url |-> u, connector |-> k]

\* rows of the sheets the full pipeline is run on: an unparsable timestamp,
\* Mon 29 May, Wed 31 May and Fri 2 June 1950 at noon, the ambiguous and the
\* nonexistent wall time, fields with surrounding blanks
SheetRows ==
    { RawRow(BadCell, <<"a">>, <<"x">>, <<"m">>),
      RawRow(Cell(148, 12), <<"a">>, <<"T", "K", "-", "x">>, <<"m">>),
      RawRow(Cell(150, 12), <<" ", "b">>, <<"x", " ">>, <<"n">>),
      RawRow(Cell(150, 12), <<"a">>, <<"t", "k">>, <<"m", " ">>),
      RawRow(Cell(152, 12), <<"a">>, <<"x">>, <<"n">>),
      RawRow(Cell(FoldDay, 0), <<"b">>, <<"T", "K", "-", "x">>, <<"m">>),
      RawRow(Cell(GapDay, 0), <<"b">>, <<"x">>, <<"m">>) }

Unreadable == [readable |-> FALSE, rows |-> <<>>]
Sheet(rows) == [readable |-> TRUE, rows |-> rows]

Sheets == {Unreadable} \cup {Sheet(rows) : rows \in SeqsUpTo(SheetRows, MaxRows)}

-----------------------------------------------------------------------------
(* The script run *)

Init ==
    /\ pc = "start"
    /\ uploaded \in Sheets
    /\ df = <<>>
    /\ freq = "D"
    /\ dim = Overall
    /\ grouped = <<>>
    /\ topn = 0
    /\ rendered = <<>>
    /\ exc = "none"
    /\ g = <<>>

\* load_data returns the canonical Event table
LoadData ==
    /\ pc = "start"
    /\ uploaded.readable
    /\ df' = load_data(uploaded.rows)
    /\ pc' = "loaded"
    /\ UNCHANGED <<uploaded, freq, dim, grouped, topn, rendered, exc, g>>

\* load_data raises; the script reports the error and stops
LoadError ==
    /\ pc = "start"
    /\ ~uploaded.readable
    /\ rendered' = <<[kind |-> "error"]>>
    /\ pc' = "stopped"
    /\ UNCHANGED <<uploaded, df, freq, dim, grouped, topn, exc, g>>

\* min_date/max_date, the date mask and the keyword filter
FilterStage ==
    /\ pc = "loaded"
    /\ Dates(df) # {}
    /\ \E r \in DateRanges(df) : \E kw \in Keywords :
           df' = KeywordFilter(DateMask(df, r[1], r[2]), kw)
    /\ pc' = "filtered"
    /\ UNCHANGED <<uploaded, freq, dim, grouped, topn, rendered, exc, g>>

\* With no timestamp in the table min()/max() are NaT: no date can be taken
\* from it for the bounds of the date widget (NaT supports no timetuple or
\* strftime), and the ValueError is raised outside any try block
DateBoundsRaise ==
    /\ pc = "loaded"
    /\ Dates(df) = {}
    /\ exc' = "ValueError"
    /\ pc' = "raised"
    /\ UNCHANGED <<uploaded, df, freq, dim, grouped, topn, rendered, g>>

Aggregate(f, d) ==
    /\ pc = "filtered"
    /\ freq' = f
    /\ dim' = d
    /\ grouped' = IF d = Overall THEN AggregateOverall(df, f)
                                 ELSE AggregateGrouped(df, d, f)
    /\ pc' = "aggregated"
    /\ UNCHANGED <<uploaded, df, topn, rendered, exc, g>>

\* the chart section: in grouped mode it cuts grouped to the top N groups
Chart ==
    /\ pc = "aggregated"
    /\ IF dim = Overall
       THEN UNCHANGED <<grouped, topn>>
       ELSE \E n \in TopNChoices : \E K \in latest_totals(grouped, n) :
                /\ topn' = n
                /\ grouped' = isin(grouped, K)
    /\ pc' = "charted"
    /\ UNCHANGED <<uploaded, df, freq, dim, rendered, exc, g>>

Growth ==
    /\ pc = "charted"
    /\ rendered' = IF dim = Overall THEN <<show_metrics(grouped, <<>>)>>
                                    ELSE GrowthByGroup(grouped)
    /\ pc' = "done"
    /\ UNCHANGED <<uploaded, df, freq, dim, grouped, topn, exc, g>>

Next ==
    \/ LoadData
    \/ LoadError
    \/ FilterStage
    \/ DateBoundsRaise
    \/ \E f \in Freqs : \E d \in Dims : Aggregate(f, d)
    \/ Chart
    \/ Growth

Spec == Init /\ [][Next]_vars

-----------------------------------------------------------------------------
(* Grouped aggregation and Top N on larger tables: the run from the filtered *)
(* Event table on, grouped by host                                          *)

EventRow(d, h) ==
    [timestamp |-> [day |-> d, hour |-> 12], host |-> h, url |-> <<"x">>,
     connector |-> <<"m">>]

\* events of four hosts on Mon 29 May 1950, and of host a on Tue 30 May
GroupRows ==
    { EventRow(148, <<"a">>), EventRow(148, <<"b">>), EventRow(148, <<"c">>),
      EventRow(148, <<"d">>), EventRow(149, <<"a">>) }

\* the sheet a table of clean events was loaded from
SheetOf(table) ==
    Sheet([i \in 1..Len(table) |->
              RawRow(Cell(table[i].timestamp.day, table[i].timestamp.hour),
                     table[i].host, table[i].url, table[i].connector)])

InitTopN ==
    /\ pc = "filtered"
    /\ df \in SeqsUpTo(GroupRows, MaxGroupRows)
    /\ uploaded = SheetOf(df)
    /\ freq = "D"
    /\ dim = Overall
    /\ grouped = <<>>
    /\ topn = 0
    /\ rendered = <<>>
    /\ exc = "none"
    /\ g = <<>>

NextTopN ==
    \/ \E f \in {"D", "M"} : Aggregate(f, "host")
    \/ Chart
    \/ Growth

SpecTopN == InitTopN /\ [][NextTopN]_vars

-----------------------------------------------------------------------------
(* The growth section on series of many groups: the run from the chart on  *)

GrowthNames ==
    << <<"a">>, <<"b">>, <<"c">>, <<"d">>, <<"e">>, <<"f">>, <<"g">>, <<"h">>,
       <<"i">>, <<"j">>, <<"k">>, <<"l">>, <<"m">>, <<"n">>, <<"o">>, <<"p">>,
       <<"q">>, <<"r">>, <<"s">>, <<"t">> >>

\* the counts of one group over consecutive days from Mon 29 May 1950
Shapes == { <<1>>, <<1, 2>>, <<2, 1>>, <<1, 1>>, <<1, 3>> }

\* the daily series of n hosts, host i having the shape pattern[i mod PatternLen]
PatternSeries(n, pattern) ==
    Flatten([i \in 1..n |->
        LET shape == pattern[((i - 1) % PatternLen) + 1]
        IN  [k \in 1..Len(shape) |->
                [group |-> GrowthNames[i],
                 timestamp |-> Midnight(147 + k),
                 count |-> shape[k]]]])

\* a table of events with the given daily per-host counts
EventsOf(series) ==
    Flatten([k \in 1..Len(series) |->
        [c \in 1..series[k].count |->
            EventRow(series[k].timestamp.day, series[k].group)]])

InitGrowth ==
    /\ pc = "charted"
    /\ \E n \in 0..Min2(MaxGrowthGroups, TopNMax) : \E pattern \in [1..PatternLen -> Shapes] :
           grouped = PatternSeries(n, pattern)
    /\ df = EventsOf(grouped)
    /\ uploaded = SheetOf(df)
    /\ freq = "D"
    /\ dim = "host"
    /\ topn = TopNMax
    /\ rendered = <<>>
    /\ exc = "none"
    /\ g = <<>>

SpecGrowth == InitGrowth /\ [][Growth]_vars

-----------------------------------------------------------------------------
(* show_metrics called directly on a series in any row order *)

\* series of up to MaxPeriods rows with distinct period starts, in any order
MetricSeries ==
    {s \in SeqsUpTo([group : {<<>>},
                     timestamp : {Midnight(147 + k) : k \in 1..MaxPeriods},
                     count : 0..MaxCount], MaxPeriods) :
        \A i, j \in 1..Len(s) : i # j => s[i].timestamp # s[j].timestamp}

InitMetrics ==
    /\ pc = "call"
    /\ g \in MetricSeries
    /\ uploaded = Unreadable
    /\ df = <<>>
    /\ freq = "D"
    /\ dim = Overall
    /\ grouped = <<>>
    /\ topn = 0
    /\ rendered = <<>>
    /\ exc = "none"

ShowMetricsCall ==
    /\ pc = "call"
    /\ rendered' = <<show_metrics(g, <<>>)>>
    /\ pc' = "returned"
    /\ UNCHANGED <<uploaded, df, freq, dim, grouped, topn, exc, g>>

SpecMetrics == InitMetrics /\ [][ShowMetricsCall]_vars

-----------------------------------------------------------------------------
(* Properties *)

\* the value of the grouping field of an event (none in overall mode)
GroupOf(row) == IF dim = Overall THEN <<>> ELSE row[dim]

\* the Monday that starts / ends the Monday-anchored week of day d, the first /
\* last day of its month
WeekStart(d) == CHOOSE m \in (d - 6)..d : Weekday(m) = 0
WeekEndMonday(d) == CHOOSE m \in d..(d + 6) : Weekday(m) = 0
MonthLast(d) ==
    CHOOSE e \in Range(MonthEnds) :
        e >= d /\ \A e2 \in Range(MonthEnds) : e2 >= d => e <= e2
MonthFirst(d) ==
    LET starts == {0} \cup {e + 1 : e \in Range(MonthEnds)}
    IN  CHOOSE b \in starts : b <= d /\ \A b2 \in starts : b2 <= d => b2 <= b

PeriodStart(d, f) ==
    IF f = "D" THEN d ELSE IF f = "W-MON" THEN WeekStart(d) ELSE MonthFirst(d)
PeriodEnd(d, f) ==
    IF f = "D" THEN d ELSE IF f = "W-MON" THEN WeekEndMonday(d) ELSE MonthLast(d)

\* C1: at the end of the aggregation step, before Top-N, the counts of the
\* Aggregated Series sum to the number of rows of the filtered Event table,
\* for every granularity and grouping choice.
C1_CountsSumToRows == pc = "aggregated" => SumCounts(grouped) = Len(df)

C1_Witness ==
    /\ pc = "aggregated"
    /\ dim = Overall
    /\ freq = "W-MON"
    /\ Len(df) = 3
    /\ Len(grouped) = 2

\* C2 (as claimed): every bucket of the aggregation output has count >= 1,
\* in overall mode as in grouped mode.
C2_SparseInBothModes ==
    pc = "aggregated" => \A k \in 1..Len(grouped) : grouped[k].count >= 1

\* C2 (amended): a grouped series is sparse, every bucket has count >= 1; an
\* overall series is dense, it holds every period from the first populated
\* one to the last, and its first and last buckets have count >= 1.
C2_SparseOnlyWhenGrouped ==
    pc = "aggregated" =>
        IF dim = Overall
        THEN /\ grouped # <<>> =>
                    grouped[1].count >= 1 /\ grouped[Len(grouped)].count >= 1
             /\ \A k \in 1..(Len(grouped) - 1) :
                    grouped[k + 1].timestamp.day =
                        PeriodEnd(grouped[k].timestamp.day + 1, freq)
        ELSE \A k \in 1..Len(grouped) : grouped[k].count >= 1

C2_Witness ==
    /\ pc = "aggregated"
    /\ dim = Overall
    /\ \E k \in 1..Len(grouped) : grouped[k].count = 0

\* the buckets of event i whose period label is lbl
BucketsAt(i, lbl) ==
    {k \in 1..Len(grouped) :
        grouped[k].group = GroupOf(df[i]) /\ grouped[k].timestamp.day = lbl}

\* C3 (as claimed): every event has exactly one bucket, labelled with the
\* start of its calendar period (its day, the Monday on or before it, the
\* first day of its month).
C3_BucketAtPeriodStart ==
    pc = "aggregated" =>
        \A i \in 1..Len(df) :
            Cardinality(BucketsAt(i, PeriodStart(df[i].timestamp.day, freq))) = 1

\* C3 (amended): every event is counted in exactly one bucket, labelled with
\* its calendar day (daily), with the Monday on or after its date (weekly:
\* weeks run Tuesday to Monday) or with the last day of its month (monthly);
\* the label is never earlier than the event's date, and a bucket counts
\* exactly the events assigned to it.
C3_BucketAtPeriodEnd ==
    pc = "aggregated" =>
        /\ \A i \in 1..Len(df) :
               Cardinality(BucketsAt(i, PeriodEnd(df[i].timestamp.day, freq))) = 1
        /\ \A k \in 1..Len(grouped) :
               grouped[k].count =
                   Cardinality({i \in 1..Len(df) :
                       k \in BucketsAt(i, PeriodEnd(df[i].timestamp.day, freq))})

C3_Witness ==
    /\ pc = "aggregated"
    /\ freq = "W-MON"
    /\ \E i \in 1..Len(df) : df[i].timestamp.day = 150
    /\ \E k \in 1..Len(grouped) :
           grouped[k].timestamp.day = 155 /\ grouped[k].count >= 1

\* C4 (as claimed): when the second-to-last period of the overall series has
\* count 0, the growth display shows the percentage as unavailable.
C4_ZeroBaseShownUnavailable ==
    (/\ pc = "done"
     /\ dim = Overall
     /\ Len(grouped) >= 2
     /\ grouped[Len(grouped) - 1].count = 0)
    => (rendered[1].kind = "metric" /\ rendered[1].delta.text = "dash")

\* the row of the greatest period start, and the one before it
LatestRow(s) ==
    CHOOSE r \in Range(s) : \A q \in Range(s) : ~TsLess(r.timestamp, q.timestamp)
PreviousRow(s) ==
    LET rest == Range(s) \ {LatestRow(s)}
    IN  CHOOSE r \in rest : \A q \in rest : ~TsLess(r.timestamp, q.timestamp)

\* C5: for a series of at least 2 periods in any row order whose previous
\* count is not 0, show_metrics reports the count of the last period, delta =
\* last - previous and pct = delta / previous, labelled (previous period start,
\* last period start); for fewer than 2 periods it reports the information
\* 'growth unavailable' and no metric.
C5_GrowthOfLastTwoPeriods ==
    pc = "returned" =>
        IF Len(g) < 2 THEN rendered = <<[kind |-> "info"]>>
        ELSE LET last == LatestRow(g)
                 prev == PreviousRow(g)
                 m == rendered[1]
             IN  prev.count # 0 =>
                    /\ Len(rendered) = 1
                    /\ m.kind = "metric"
                    /\ m.value = last.count
                    /\ m.prev_date = prev.timestamp.day
                    /\ m.last_date = last.timestamp.day
                    /\ m.delta.text = "delta_pct"
                    /\ m.delta.delta = last.count - prev.count
                    /\ m.delta.pct.cls = "finite"
                    /\ m.delta.pct.den > 0
                    /\ m.delta.pct.num * prev.count =
                           (last.count - prev.count) * m.delta.pct.den

C5_Witness ==
    /\ pc = "returned"
    /\ Len(g) = 3
    /\ g[1].timestamp.day > g[2].timestamp.day
    /\ g[3].timestamp.day < g[2].timestamp.day
    /\ PreviousRow(g).count = 1
    /\ LatestRow(g).count = 2
    /\ rendered[1].kind = "metric"

\* the (period start, count) entries of group n in a series
EntriesOf(series, n) ==
    {<<r.timestamp, r.count>> : r \in Range(RowsOfGroup(series, n))}

\* C6: the Top-N step outputs exactly min(N, number of input groups) groups,
\* each of them an input group with exactly the entries it had in the input.
C6_TopNKeepsWholeGroups ==
    [][(pc = "aggregated" /\ pc' = "charted" /\ dim # Overall) =>
          /\ Cardinality(GroupNames(grouped')) =
                 Min2(topn', Cardinality(GroupNames(grouped)))
          /\ GroupNames(grouped') \subseteq GroupNames(grouped)
          /\ \A n \in GroupNames(grouped') :
                 EntriesOf(grouped', n) = EntriesOf(grouped, n)
          /\ Len(grouped') =
                 Cardinality({k \in 1..Len(grouped) :
                     grouped[k].group \in GroupNames(grouped')})]_vars

C6_Witness ==
    /\ pc = "charted"
    /\ dim = "host"
    /\ freq = "D"
    /\ topn = TopNMin
    /\ Cardinality({df[i].host : i \in 1..Len(df)}) = 4
    /\ Cardinality(GroupNames(grouped)) = 3
    /\ Len(RowsOfGroup(grouped, <<"a">>)) = 2

\* the groups of the filtered Event table, their totals and first appearance
EventGroups == {GroupOf(df[i]) : i \in 1..Len(df)}
EventTotal(n) == Cardinality({i \in 1..Len(df) : GroupOf(df[i]) = n})
FirstAppearance(n) ==
    CHOOSE i \in 1..Len(df) :
        GroupOf(df[i]) = n /\ \A j \in 1..(i - 1) : GroupOf(df[j]) # n
Outranks(m, n) ==
    \/ EventTotal(m) > EventTotal(n)
    \/ EventTotal(m) = EventTotal(n) /\ FirstAppearance(m) < FirstAppearance(n)

\* C7 (as claimed): the retained groups are the first N in the order by total
\* descending, ties broken by first appearance in the filtered Event table.
C7_TiesByFirstAppearance ==
    (pc = "charted" /\ dim # Overall) =>
        GroupNames(grouped) =
            {n \in EventGroups :
                Cardinality({m \in EventGroups : Outranks(m, n)}) < topn}

\* C7 (amended): min(N, number of groups) groups are retained and no retained
\* group has a smaller total than a discarded group; which of several groups
\* of equal total at the cut is retained does not follow first appearance.
C7_RetainedTotalsDominate ==
    (pc = "charted" /\ dim # Overall) =>
        /\ GroupNames(grouped) \subseteq EventGroups
        /\ Cardinality(GroupNames(grouped)) = Min2(topn, Cardinality(EventGroups))
        /\ \A k \in GroupNames(grouped) : \A o \in EventGroups \ GroupNames(grouped) :
               EventTotal(k) >= EventTotal(o)

C7_Witness ==
    /\ pc = "charted"
    /\ dim = "host"
    /\ topn = TopNMin
    /\ \E k \in GroupNames(grouped) : \E o \in EventGroups \ GroupNames(grouped) :
           EventTotal(k) > EventTotal(o)
    /\ \E k \in GroupNames(grouped) : \E o \in EventGroups \ GroupNames(grouped) :
           EventTotal(k) = EventTotal(o) /\ FirstAppearance(o) < FirstAppearance(k)

\* C8 (as claimed): after load_data no row of the Event table has a null
\* timestamp.
C8_NoNullTimestamp ==
    pc = "loaded" => \A i \in 1..Len(df) : df[i].timestamp # NaT

\* C9 (as claimed): a run on an empty table finishes without raising.
C9_EmptyTableNeverRaises == df = <<>> => exc = "none"

\* pct of group n from its last two periods, as <<numerator, denominator>>
GroupPct(n) ==
    LET rows == RowsOfGroup(grouped, n)
    IN  <<LatestRow(rows).count - PreviousRow(rows).count, PreviousRow(rows).count>>
PctAtLeast(p, q) == p[1] * q[2] >= q[1] * p[2]
RenderedPct(m) == <<m.delta.pct.num, m.delta.pct.den>>
MetricGroups == {n \in GroupNames(grouped) : Len(RowsOfGroup(grouped, n)) >= 2}

\* C10 (as claimed): every retained group is rendered while fewer than 12
\* precede it, the groups without a pct after those with one.
C10_UnavailableRenderedLast ==
    (pc = "done" /\ dim # Overall) =>
        Len(rendered) = Min2(MaxMetrics, Cardinality(GroupNames(grouped)))

\* C10 (amended): the metrics rendered are those of the retained groups with
\* at least 2 periods, in descending order of pct, at most 12 of them (the
\* ones of greatest pct); a retained group with fewer than 2 periods is not
\* rendered at all.
C10_OnlyGroupsWithTwoPeriods ==
    (pc = "done" /\ dim # Overall) =>
        /\ Len(rendered) = Min2(MaxMetrics, Cardinality(MetricGroups))
        /\ \A i \in 1..Len(rendered) :
               /\ rendered[i].kind = "metric"
               /\ rendered[i].name \in MetricGroups
               /\ rendered[i].delta.text = "delta_pct"
               /\ PctAtLeast(RenderedPct(rendered[i]), GroupPct(rendered[i].name))
               /\ PctAtLeast(GroupPct(rendered[i].name), RenderedPct(rendered[i]))
        /\ \A i, j \in 1..Len(rendered) :
               i < j => /\ rendered[i].name # rendered[j].name
                        /\ PctAtLeast(RenderedPct(rendered[i]), RenderedPct(rendered[j]))
        /\ \A n \in MetricGroups :
               (\A i \in 1..Len(rendered) : rendered[i].name # n) =>
                   \A i \in 1..Len(rendered) :
                       PctAtLeast(RenderedPct(rendered[i]), GroupPct(n))

C10_Witness ==
    /\ pc = "done"
    /\ dim = "host"
    /\ Cardinality(MetricGroups) > MaxMetrics
    /\ Len(rendered) = MaxMetrics
    /\ \E n \in GroupNames(grouped) : Len(RowsOfGroup(grouped, n)) = 1
    /\ \E i \in 1..Len(rendered) : rendered[i].delta.pct.num < 0

=============================================================================
